---- MODULE Spec2Model ----
(***************************************************************************)
(* Client-side synchronisation layer of the XCA-Bot dashboards.            *)
(*                                                                         *)
(* The module holds several state machines, one per mechanism, over one    *)
(* set of variables.  Each specification runs one mechanism and keeps the  *)
(* variables of the others at their initial values:                        *)
(*                                                                         *)
(*   SpecStream / SpecStreamFair  the EventSource life cycle of the SSE    *)
(*                                dashboard (setupSSE, onerror, cleanup)   *)
(*   SpecMatches                  the recent-matches lists of the two      *)
(*                                dashboards (stream events, fetches,      *)
(*                                check-now results)                       *)
(*   SpecDash                     TwitterMonitor's view state under its    *)
(*                                one-shot actions and stream events       *)
(*   SpecReq                      one HTTP request through each of the     *)
(*                                three request helpers (makeApiRequest,   *)
(*                                apiCall, the typed client of lib/api.ts) *)
(*   SpecHome                     the pages dashboard (Home) with its      *)
(*                                poll, its start/stop/check actions and   *)
(*                                the components of its tabs               *)
(*   SpecRetry / SpecRetryFair    one call of retryWithBackoff             *)
(*   SpecDeliver                  the EventSource life cycle together with *)
(*                                the messages the server emits and the    *)
(*                                onmessage handlers apply                 *)
(*   SpecConfig                   the configuration: the backend's copy,   *)
(*                                TwitterMonitor's editable copy and the   *)
(*                                username list of UsernameManager         *)
(*   SpecLogStyle                 the style the logs tab gives a log line  *)
(*   SpecToggle                   the Start/Stop control of TwitterMonitor *)
(*                                and the calls it puts in flight          *)
(*   SpecList                     MatchesList and its overlapping fetches  *)
(*   SpecNames                    adding and removing usernames in         *)
(*                                UsernameManager                          *)
(*   SpecParse                    the EventSource machine with messages    *)
(*                                that are not JSON                        *)
(***************************************************************************)
EXTENDS Integers, Sequences, FiniteSets, TLC

VARIABLES
    \* ---- EventSource life cycle (TwitterMonitor mount effect) ----
    sources,      \* every EventSource constructed so far, in construction order
    timers,       \* pending reconnect timers (setTimeout), in scheduling order
    unmounted,    \* TRUE once the effect cleanup has run
    sseError,     \* the `error` banner as written by the onerror handlers
    lateMsg,      \* TRUE once an onmessage handler has run after the cleanup
    \* ---- recent-matches lists ----
    app,              \* which dashboard is mounted: "sse" (TwitterMonitor) or "pages" (Home)
    nextId,           \* the backend's next match id (ids grow with time)
    recentMatches,    \* TwitterMonitor's recentMatches (match ids, as displayed)
    pgRecentMatches,  \* Home's recentMatches
    cleanRun,         \* stream events applied since recentMatches was last empty
                      \* (-1 once a non-empty fetch replaced the list)
    \* ---- TwitterMonitor view state and one-shot actions ----
    isRunning,        \* useState(false)
    status,           \* useState<StatusResponse | null>(null): <<>> is null, else <<record>>
    config,           \* useState<FullConfig>({...defaults})
    logs,             \* useState<string[]>([])
    error,            \* useState<string | null>(null): which handler wrote the banner
    pc,               \* where each one-shot action is suspended ("idle": not running)
    toggleDir,        \* the branch toggleMonitoring took at the click
    changed,          \* slices each running action has changed since it started
    lastFailure,      \* <<the action that failed last, with the slices it had changed>>, or <<>>
    lastStatusPayload,\* <<is_running of the status payload received last (stream or fetch)>>, or <<>>
    lastWriter,       \* the response that wrote isRunning last
    \* ---- one HTTP request through a request helper ----
    call,             \* the request being followed: helper, phase, elapsed time,
                      \* abort timer, response received, outcome handed to the caller
    \* ---- the pages dashboard (Home) and the backend it talks to ----
    hStatus,          \* Home's status: <<>> is null, else <<payload>>
    hLoading,         \* Home's loading flag
    apiError,         \* Home's apiError: <<>> is null, else <<message>>
    notification,     \* Home's notification: <<>> is null, else <<[type, about]>>
    activeTab,        \* Home's activeTab
    hpc,              \* where each action of Home and each tab component is suspended
    compError,        \* the `error` state of each tab component (<<>> is null)
    startClean,       \* the running start action began with running = false displayed
                      \* and no call in flight
    srvRunning,       \* backend: monitoring is running
    reachable,        \* backend: the base URL answers
    \* ---- one call of retryWithBackoff ----
    retry,            \* its arguments, its `retries` counter, where it is suspended,
                      \* the invocations of fn and the waits so far, and its outcome
    \* ---- messages on the streams ----
    emitted,          \* per channel, how many messages the server has emitted
    inflight,         \* messages written to a connection and not yet handled, oldest first
    applied,          \* per channel, the messages the onmessage handlers applied, in order
    \* ---- the configuration ----
    stored,           \* the backend's configuration
    cfg,              \* TwitterMonitor's config (useState<FullConfig>)
    umUsernames,      \* UsernameManager's usernames
    lastPut,          \* <<the component that saved last, with the body it sent>>, or <<>>
    lastSave,         \* <<stored and cfg after the first of the saves TwitterMonitor made
                      \* of one configuration with no other write, and how many>>, or <<>>
    fetchRun,         \* the /config objects fetched since the last write (the last two)
    \* ---- the logs tab ----
    logLine,          \* a log line (its characters)
    logStyle,         \* the className it was rendered with (None: not rendered yet)
    \* ---- stream messages that are not JSON ----
    parseErrors,      \* console.error calls made by the catch of an onmessage handler
    \* ---- the Start/Stop control of TwitterMonitor ----
    isTogglingMonitor, \* the flag that disables the Start/Stop control
    toggleCalls,      \* the start/stop calls in flight (toggleMonitoring suspended at its await)
    toggleSent,       \* every start/stop call sent so far, in order
    \* ---- MatchesList ----
    mlLimit,          \* MatchesList: the selected limit
    mlMatches,        \* MatchesList: the matches displayed (how many rows, newest first)
    mlLoading,        \* MatchesList: loading
    mlError,          \* MatchesList: error
    mlCalls,          \* MatchesList: the getMatches calls in flight
    mlNextReq,        \* the number of the next getMatches call
    mlLatest,         \* the limit and the outcome of the getMatches call issued last
    mlTotal,          \* how many matches the backend holds
    \* ---- the username list of UsernameManager, name by name ----
    usernames,        \* UsernameManager: the list, each name as its characters
    newUsername,      \* UsernameManager: the text of the input
    umError,          \* UsernameManager: error
    umLastOp          \* the handler of UsernameManager that ran last

streamVars == <<sources, timers, unmounted, sseError, lateMsg>>

matchVars == <<app, nextId, recentMatches, pgRecentMatches, cleanRun>>

dashVars == <<isRunning, status, config, logs, error, pc, toggleDir, changed,
              lastFailure, lastStatusPayload, lastWriter>>

homeVars == <<hStatus, hLoading, apiError, notification, activeTab, hpc, compError,
              startClean, srvRunning, reachable>>

deliverVars == <<emitted, inflight, applied>>

configVars == <<stored, cfg, umUsernames, lastPut, lastSave, fetchRun>>

logVars == <<logLine, logStyle>>

parseVars == <<parseErrors>>

toggleVars == <<isTogglingMonitor, toggleCalls, toggleSent>>

listVars == <<mlLimit, mlMatches, mlLoading, mlError, mlCalls, mlNextReq, mlLatest, mlTotal>>

nameVars == <<usernames, newUsername, umError, umLastOp>>

vars == <<streamVars, matchVars, dashVars, call, homeVars, retry, deliverVars, configVars,
          logVars,
          parseVars,
          toggleVars,
          listVars,
          nameVars>>

\* Variables that the EventSource machine never touches.
otherThanStream == <<matchVars, dashVars, call, homeVars, retry,
    deliverVars, configVars,
    logVars,
    parseVars,
    toggleVars,
    listVars,
    nameVars>>

\* Variables that the recent-matches machine never touches.
otherThanMatches == <<streamVars, dashVars, call, homeVars, retry,
    deliverVars, configVars,
    logVars,
    parseVars,
    toggleVars,
    listVars,
    nameVars>>

\* Variables that TwitterMonitor's actions never touch (they do write recentMatches).
otherThanDash == <<streamVars, app, pgRecentMatches, cleanRun, call, homeVars, retry,
    deliverVars, configVars,
    logVars,
    parseVars,
    toggleVars,
    listVars,
    nameVars>>

\* Variables that a request helper never touches.
otherThanReq == <<streamVars, matchVars, dashVars, homeVars, retry,
    deliverVars, configVars,
    logVars,
    parseVars,
    toggleVars,
    listVars,
    nameVars>>

\* Variables that Home and its components never touch (Home does write its
\* recent matches).
otherThanHome == <<streamVars, app, nextId, recentMatches, cleanRun, dashVars, call, retry,
    deliverVars, configVars,
    logVars,
    parseVars,
    toggleVars,
    listVars,
    nameVars>>

\* Variables that the delivery of stream messages never touches (it runs the
\* EventSource life cycle).
otherThanDeliver == <<matchVars, dashVars, call, homeVars, retry, configVars,
    logVars,
    parseVars,
    toggleVars,
    listVars,
    nameVars>>

\* Variables that rendering a log line never touches.
otherThanLog == <<streamVars, matchVars, dashVars, call, homeVars, retry, deliverVars,
                  configVars,
    parseVars,
    toggleVars,
    listVars,
    nameVars>>

\* Variables that the configuration machine never touches.
otherThanConfig == <<streamVars, matchVars, dashVars, call, homeVars, retry, deliverVars,
    logVars,
    parseVars,
    toggleVars,
    listVars,
    nameVars>>

\* Variables that retryWithBackoff never touches.
otherThanRetry == <<streamVars, matchVars, dashVars, call, homeVars,
    deliverVars, configVars,
    logVars,
    parseVars,
    toggleVars,
    listVars,
    nameVars>>

----------------------------------------------------------------------------
(* Small helpers *)

Min(a, b) == IF a < b THEN a ELSE b

Take(s, n) == SubSeq(s, 1, Min(n, Len(s)))

None == "none"

----------------------------------------------------------------------------
(***************************************************************************)
(* EventSource life cycle.                                                 *)
(***************************************************************************)

\* Number of setupSSE calls the model follows (each constructs three sources).
MaxSetups == 3

\* setTimeout(..., 5000) in the onerror handler.
ReconnectDelayMs == 5000

Channels == <<"status", "matches", "logs">>

CONNECTING == "connecting"
OPEN == "open"
CLOSED == "closed"

\* The delay handed to setTimeout by onerror; it does not read any failure count.
ReconnectDelay(nSetups) == ReconnectDelayMs

\* setupSSE(): constructs one EventSource per channel; each starts CONNECTING.
SetupSSE(srcs) ==
    srcs \o [k \in 1..3 |-> [channel |-> Channels[k], readyState |-> CONNECTING]]

\* source.close()
Close(srcs, i) == [srcs EXCEPT ![i].readyState = CLOSED]

\* The cleanup returned by the FIRST setupSSE() call, the only one the effect keeps:
\* it closes statusSource, matchSource and logSource of that call.
Cleanup(srcs) == [i \in DOMAIN srcs |->
                    IF i <= 3 THEN [srcs[i] EXCEPT !.readyState = CLOSED] ELSE srcs[i]]

\* A mutant of Reconnect: the timer callback closes the failed source and stops.
ReconnectCloseOnly(srcs, failed) == Close(srcs, failed)

\* The timer callback of onerror: source.close(); setupSSE().
Reconnect(srcs, failed) == SetupSSE(Close(srcs, failed))

NSetups == Len(sources) \div 3

StreamInit ==
    /\ sources = SetupSSE(<<>>)
    /\ timers = <<>>
    /\ unmounted = FALSE
    /\ sseError = None
    /\ lateMsg = FALSE

\* The browser establishes the connection of source i.
Connected(i) ==
    /\ sources[i].readyState = CONNECTING
    /\ sources' = [sources EXCEPT ![i].readyState = OPEN]
    /\ UNCHANGED <<timers, unmounted, sseError, lateMsg>>
    /\ UNCHANGED otherThanStream

\* onmessage of source i runs (the effect on the view state is modelled in the
\* dashboard machine).
Message(i) ==
    /\ sources[i].readyState = OPEN
    /\ lateMsg' = (lateMsg \/ unmounted)
    /\ UNCHANGED <<sources, timers, unmounted, sseError>>
    /\ UNCHANGED otherThanStream

\* The browser fires `error` on source i: the connection dropped and the browser
\* retries on its own (CONNECTING) or gave up (CLOSED).  onerror sets the banner
\* and schedules the reconnect.  The guard keeps room for the setup the timer makes.
StreamError(i, after) ==
    /\ sources[i].readyState # CLOSED
    /\ NSetups + Len(timers) < MaxSetups
    /\ sources' = [sources EXCEPT ![i].readyState = after]
    /\ sseError' = sources[i].channel
    /\ timers' = Append(timers, [source |-> i, delay |-> ReconnectDelay(NSetups)])
    /\ UNCHANGED <<unmounted, lateMsg>>
    /\ UNCHANGED otherThanStream

\* The oldest pending timer fires: source.close(); setupSSE().
\* (Equal delays: timers fire in the order they were scheduled.)
ReconnectTimer ==
    /\ timers # <<>>
    /\ sources' = Reconnect(sources, Head(timers).source)
    /\ timers' = Tail(timers)
    /\ UNCHANGED <<unmounted, sseError, lateMsg>>
    /\ UNCHANGED otherThanStream

\* The component unmounts: React runs the effect cleanup.  Pending timers are not
\* cleared (the code keeps no handle on them).
Unmount ==
    /\ ~unmounted
    /\ unmounted' = TRUE
    /\ sources' = Cleanup(sources)
    /\ UNCHANGED <<timers, sseError, lateMsg>>
    /\ UNCHANGED otherThanStream

StreamNext ==
    \/ \E i \in DOMAIN sources : Connected(i)
    \/ \E i \in DOMAIN sources : Message(i)
    \/ \E i \in DOMAIN sources : \E after \in {CONNECTING, CLOSED} : StreamError(i, after)
    \/ ReconnectTimer
    \/ Unmount

----------------------------------------------------------------------------
(***************************************************************************)
(* Recent-matches lists.  A match is its id; the backend numbers matches   *)
(* in the order it finds them, so a larger id is a more recent match.      *)
(***************************************************************************)

\* Match ids the model follows.
MaxMatches == 16

\* Longest page a backend reply to GET /matches holds.  The clients send
\* ?limit=10 and ?limit=5 and store the reply as it comes.
MaxPage == 11

\* Most new matches one check-now result reports.
MaxNew == 2

\* .slice(0, 10) in TwitterMonitor's match handler.
MatchCap == 10

\* .slice(0, 5) in Home's handleCheckNow.
PagesCap == 5

\* The k most recent of the matches 1..n, most recent first.
Newest(n, k) == [j \in 1..k |-> n - j + 1]

\* A mutant of PrependCapped: appends the new match and keeps the first 10.
AppendCapped(match, prev) == Take(prev \o <<match>>, MatchCap)

\* matchSource.onmessage: setRecentMatches(prev => [match, ...prev].slice(0, 10))
PrependCapped(match, prev) == Take(<<match>> \o prev, MatchCap)

\* handleCheckNow: [...newMatches, ...prevMatches].slice(0, 5), when newMatches is not empty
MergeCheckNow(newMatches, prev) ==
    IF Len(newMatches) > 0 THEN Take(newMatches \o prev, PagesCap) ELSE prev

MatchesInit ==
    /\ app \in {"sse", "pages"}
    /\ nextId = 1
    /\ recentMatches = <<>>
    /\ pgRecentMatches = <<>>
    /\ cleanRun = 0

\* The backend finds a match and emits it on /stream/matches; the handler
\* prepends it.
MatchEvent ==
    /\ app = "sse"
    /\ nextId <= MaxMatches
    /\ recentMatches' = PrependCapped(nextId, recentMatches)
    /\ nextId' = nextId + 1
    /\ cleanRun' = IF cleanRun >= 0 THEN cleanRun + 1 ELSE cleanRun
    /\ UNCHANGED <<app, pgRecentMatches>>
    /\ UNCHANGED otherThanMatches

\* fetchMatches(10) resolves (initial load, refresh): setRecentMatches(matchesData.matches).
\* The reply holds the r most recent matches; r is the backend's choice.
FetchMatchesReply(r) ==
    /\ app = "sse"
    /\ r <= nextId - 1
    /\ recentMatches' = Newest(nextId - 1, r)
    /\ cleanRun' = IF r = 0 THEN 0 ELSE -1
    /\ UNCHANGED <<app, nextId, pgRecentMatches>>
    /\ UNCHANGED otherThanMatches

\* The backend finds a match while Home is mounted (Home has no stream).
BackendFinds ==
    /\ app = "pages"
    /\ nextId <= MaxMatches
    /\ nextId' = nextId + 1
    /\ UNCHANGED <<app, recentMatches, pgRecentMatches, cleanRun>>
    /\ UNCHANGED otherThanMatches

\* Home fetchData: getMatches(5) resolves: setRecentMatches(recentMatchesData).
PagesFetchReply(r) ==
    /\ app = "pages"
    /\ r <= nextId - 1
    /\ pgRecentMatches' = Newest(nextId - 1, r)
    /\ UNCHANGED <<app, nextId, recentMatches, cleanRun>>
    /\ UNCHANGED otherThanMatches

\* Home handleCheckNow: checkNow() resolves with k new matches.
PagesCheckNow(k) ==
    /\ app = "pages"
    /\ nextId + k - 1 <= MaxMatches
    /\ pgRecentMatches' = MergeCheckNow(Newest(nextId + k - 1, k), pgRecentMatches)
    /\ nextId' = nextId + k
    /\ UNCHANGED <<app, recentMatches, cleanRun>>
    /\ UNCHANGED otherThanMatches

MatchesNext ==
    \/ MatchEvent
    \/ \E r \in 0..MaxPage : FetchMatchesReply(r)
    \/ BackendFinds
    \/ \E r \in 0..MaxPage : PagesFetchReply(r)
    \/ \E k \in 0..MaxNew : PagesCheckNow(k)

\* The recent-matches machine at rest.
MatchesQuiet ==
    /\ app = "sse"
    /\ nextId = 1
    /\ recentMatches = <<>>
    /\ pgRecentMatches = <<>>
    /\ cleanRun = 0

----------------------------------------------------------------------------
(***************************************************************************)
(* TwitterMonitor: the view state, its one-shot actions (initial load,     *)
(* refresh, toggle monitoring, save configuration, check now) and the      *)
(* stream handlers.  Every await is a suspension point: an action is a     *)
(* chain of steps, one per reply, and steps of different actions and       *)
(* stream events interleave.                                               *)
(***************************************************************************)

\* Match stream events followed while the one-shot actions run.
MaxDashMatches == 1

\* Log lines the logs slice holds while the one-shot actions run.
MaxLogs == 1

Actions == {"init", "refresh", "toggle", "save", "check"}

\* if (loading) return <Loading/>: set by fetchInitialData, cleared in its finally.
Loading == pc["init"] # "done"

\* Payload of a /stream/status message, and of a GET /status reply.  Fields
\* other than is_running carry the mark of the payload they came from.
StreamStatus(b) == [is_running |-> b, uptime |-> "s", next_run |-> "s"]

FetchedStatus(b) ==
    [is_running |-> b, uptime |-> "f", last_check |-> "f", monitored_users |-> "f"]

\* setStatus(prev => ({...prev!, is_running, uptime, last_check: data.next_run}))
MergeStatus(prev, data) ==
    [is_running |-> data.is_running,
     uptime |-> data.uptime,
     last_check |-> data.next_run,
     monitored_users |-> IF prev = <<>> THEN None ELSE prev[1].monitored_users]

\* A mutant of RunningOf: reads data.running, which the payload does not have.
RunningOfWrongField(data) == FALSE

\* setIsRunning(data.is_running) / setIsRunning(statusData.is_running)
RunningOf(data) == data.is_running

\* toggleMonitoring: if (isRunning) stop else start
ToggleBranch(running) == IF running THEN "stop" ELSE "start"

\* toggleMonitoring after the await: setIsRunning(false) / setIsRunning(true)
RunningAfterToggle(dir) == (dir = "start")

\* The slices among `pairs` (<<name, old, new>>) whose value the step changed.
Differing(pairs) == {q[1] : q \in {q \in pairs : q[2] # q[3]}}

DashInit ==
    /\ isRunning = FALSE
    /\ status = <<>>
    /\ config = "default"
    /\ logs = <<>>
    /\ error = None
    /\ pc = [a \in Actions |-> IF a = "init" THEN "avail" ELSE "idle"]
    /\ toggleDir = None
    /\ changed = [a \in Actions |-> {}]
    /\ lastFailure = <<>>
    /\ lastStatusPayload = <<>>
    /\ lastWriter = None

\* catch (err) { setError(...) } finally { busy flag off }: the action ends.
Fails(a) ==
    /\ error' = a
    /\ pc' = [pc EXCEPT ![a] = IF a = "init" THEN "done" ELSE "idle"]
    /\ lastFailure' = << [action |-> a, changed |-> changed[a]] >>
    /\ UNCHANGED <<isRunning, status, config, logs, toggleDir, changed,
                   lastStatusPayload, lastWriter, nextId, recentMatches>>

\* fetchInitialData: checkApiAvailability() resolves (it never rejects).
InitAvailable(ok) ==
    /\ pc["init"] = "avail"
    /\ IF ok
       THEN /\ pc' = [pc EXCEPT !["init"] = "config"]
            /\ UNCHANGED <<isRunning, status, config, logs, error, toggleDir, changed,
                           lastFailure, lastStatusPayload, lastWriter, nextId, recentMatches>>
       ELSE Fails("init")
    /\ UNCHANGED otherThanDash

\* fetchInitialData: fetchConfig() settles; setConfig(configData).
InitConfigReply(ok) ==
    /\ pc["init"] = "config"
    /\ IF ok
       THEN /\ config' = "server"
            /\ changed' = [changed EXCEPT !["init"] =
                              @ \cup Differing({<<"config", config, "server">>})]
            /\ pc' = [pc EXCEPT !["init"] = "matches"]
            /\ UNCHANGED <<isRunning, status, logs, error, toggleDir,
                           lastFailure, lastStatusPayload, lastWriter, nextId, recentMatches>>
       ELSE Fails("init")
    /\ UNCHANGED otherThanDash

\* fetchInitialData: fetchMatches(10) settles; setRecentMatches(matchesData.matches).
InitMatchesReply(ok, r) ==
    /\ pc["init"] = "matches"
    /\ r <= nextId - 1
    /\ IF ok
       THEN /\ recentMatches' = Newest(nextId - 1, r)
            /\ changed' = [changed EXCEPT !["init"] =
                  @ \cup Differing({<<"recentMatches", recentMatches, Newest(nextId - 1, r)>>})]
            /\ pc' = [pc EXCEPT !["init"] = "logs"]
            /\ UNCHANGED <<isRunning, status, config, logs, error, toggleDir,
                           lastFailure, lastStatusPayload, lastWriter, nextId>>
       ELSE r = 0 /\ Fails("init")
    /\ UNCHANGED otherThanDash

\* fetchInitialData: fetchLogs(100) settles; setLogs(logsData); finally setLoading(false).
InitLogsReply(ok, n) ==
    /\ pc["init"] = "logs"
    /\ IF ok
       THEN /\ logs' = [j \in 1..n |-> "[INFO] fetched"]
            /\ pc' = [pc EXCEPT !["init"] = "done"]
            /\ UNCHANGED <<isRunning, status, config, error, toggleDir, changed,
                           lastFailure, lastStatusPayload, lastWriter, nextId, recentMatches>>
       ELSE n = 0 /\ Fails("init")
    /\ UNCHANGED otherThanDash

\* refreshData up to its first await: setError(null); fetchMatches(10).
RefreshClick ==
    /\ ~Loading
    /\ pc["refresh"] = "idle"
    /\ error' = None
    /\ pc' = [pc EXCEPT !["refresh"] = "matches"]
    /\ changed' = [changed EXCEPT !["refresh"] = {}]
    /\ UNCHANGED <<isRunning, status, config, logs, toggleDir,
                   lastFailure, lastStatusPayload, lastWriter, nextId, recentMatches>>
    /\ UNCHANGED otherThanDash

\* refreshData: fetchMatches(10) settles; setRecentMatches; fetchStatus().
RefreshMatchesReply(ok, r) ==
    /\ pc["refresh"] = "matches"
    /\ r <= nextId - 1
    /\ IF ok
       THEN /\ recentMatches' = Newest(nextId - 1, r)
            /\ changed' = [changed EXCEPT !["refresh"] =
                  @ \cup Differing({<<"recentMatches", recentMatches, Newest(nextId - 1, r)>>})]
            /\ pc' = [pc EXCEPT !["refresh"] = "status"]
            /\ UNCHANGED <<isRunning, status, config, logs, error, toggleDir,
                           lastFailure, lastStatusPayload, lastWriter, nextId>>
       ELSE r = 0 /\ Fails("refresh")
    /\ UNCHANGED otherThanDash

\* refreshData: fetchStatus() settles; setStatus(statusData); setIsRunning(statusData.is_running).
RefreshStatusReply(ok, b) ==
    /\ pc["refresh"] = "status"
    /\ IF ok
       THEN /\ status' = <<FetchedStatus(b)>>
            /\ isRunning' = RunningOf(FetchedStatus(b))
            /\ lastStatusPayload' = <<b>>
            /\ lastWriter' = "fetch"
            /\ pc' = [pc EXCEPT !["refresh"] = "idle"]
            /\ UNCHANGED <<config, logs, error, toggleDir, changed, lastFailure,
                           nextId, recentMatches>>
       ELSE b = FALSE /\ Fails("refresh")
    /\ UNCHANGED otherThanDash

\* toggleMonitoring up to its await: setError(null); setIsTogglingMonitor(true);
\* stopMonitoring() or startMonitoring() by the isRunning of the click.
\* The button is disabled while isTogglingMonitor.
ToggleClick ==
    /\ ~Loading
    /\ pc["toggle"] = "idle"
    /\ error' = None
    /\ toggleDir' = ToggleBranch(isRunning)
    /\ pc' = [pc EXCEPT !["toggle"] = "inflight"]
    /\ changed' = [changed EXCEPT !["toggle"] = {}]
    /\ UNCHANGED <<isRunning, status, config, logs,
                   lastFailure, lastStatusPayload, lastWriter, nextId, recentMatches>>
    /\ UNCHANGED otherThanDash

\* toggleMonitoring: the call settles; on success setIsRunning by the branch
\* taken (the reply's body is not read).
ToggleReply(ok) ==
    /\ pc["toggle"] = "inflight"
    /\ IF ok
       THEN /\ isRunning' = RunningAfterToggle(toggleDir)
            /\ lastWriter' = toggleDir
            /\ pc' = [pc EXCEPT !["toggle"] = "idle"]
            /\ UNCHANGED <<status, config, logs, error, toggleDir, changed, lastFailure,
                           lastStatusPayload, nextId, recentMatches>>
       ELSE Fails("toggle")
    /\ UNCHANGED otherThanDash

\* saveConfiguration up to its await: setError(null); setIsSavingConfig(true); updateConfig(config).
SaveClick ==
    /\ ~Loading
    /\ pc["save"] = "idle"
    /\ error' = None
    /\ pc' = [pc EXCEPT !["save"] = "inflight"]
    /\ changed' = [changed EXCEPT !["save"] = {}]
    /\ UNCHANGED <<isRunning, status, config, logs, toggleDir,
                   lastFailure, lastStatusPayload, lastWriter, nextId, recentMatches>>
    /\ UNCHANGED otherThanDash

\* saveConfiguration: updateConfig settles.
SaveReply(ok) ==
    /\ pc["save"] = "inflight"
    /\ IF ok
       THEN /\ pc' = [pc EXCEPT !["save"] = "idle"]
            /\ UNCHANGED <<isRunning, status, config, logs, error, toggleDir, changed,
                           lastFailure, lastStatusPayload, lastWriter, nextId, recentMatches>>
       ELSE Fails("save")
    /\ UNCHANGED otherThanDash

\* performImmediateCheck up to its await; the button is disabled while
\* isCheckingNow or while not running.
CheckClick ==
    /\ ~Loading
    /\ pc["check"] = "idle"
    /\ isRunning
    /\ error' = None
    /\ pc' = [pc EXCEPT !["check"] = "inflight"]
    /\ changed' = [changed EXCEPT !["check"] = {}]
    /\ UNCHANGED <<isRunning, status, config, logs, toggleDir,
                   lastFailure, lastStatusPayload, lastWriter, nextId, recentMatches>>
    /\ UNCHANGED otherThanDash

\* performImmediateCheck: checkNow() settles.
CheckReply(ok) ==
    /\ pc["check"] = "inflight"
    /\ IF ok
       THEN /\ pc' = [pc EXCEPT !["check"] = "idle"]
            /\ UNCHANGED <<isRunning, status, config, logs, error, toggleDir, changed,
                           lastFailure, lastStatusPayload, lastWriter, nextId, recentMatches>>
       ELSE Fails("check")
    /\ UNCHANGED otherThanDash

\* statusSource.onmessage with a payload that parses.
StatusEvent(b) ==
    /\ isRunning' = RunningOf(StreamStatus(b))
    /\ status' = <<MergeStatus(status, StreamStatus(b))>>
    /\ lastStatusPayload' = <<b>>
    /\ lastWriter' = "stream"
    /\ UNCHANGED <<config, logs, error, pc, toggleDir, changed, lastFailure,
                   nextId, recentMatches>>
    /\ UNCHANGED otherThanDash

\* matchSource.onmessage while the actions run.
DashMatchEvent ==
    /\ nextId <= MaxDashMatches
    /\ recentMatches' = PrependCapped(nextId, recentMatches)
    /\ nextId' = nextId + 1
    /\ UNCHANGED <<isRunning, status, config, logs, error, pc, toggleDir, changed,
                   lastFailure, lastStatusPayload, lastWriter>>
    /\ UNCHANGED otherThanDash

\* logSource.onmessage: setLogs(prev => [...prev, data.log])
LogEvent ==
    /\ Len(logs) < MaxLogs
    /\ logs' = Append(logs, "[ERROR] streamed")
    /\ UNCHANGED <<isRunning, status, config, error, pc, toggleDir, changed,
                   lastFailure, lastStatusPayload, lastWriter, nextId, recentMatches>>
    /\ UNCHANGED otherThanDash

\* The banner's dismiss button: setError(null).
DismissError ==
    /\ ~Loading
    /\ error # None
    /\ error' = None
    /\ UNCHANGED <<isRunning, status, config, logs, pc, toggleDir, changed,
                   lastFailure, lastStatusPayload, lastWriter, nextId, recentMatches>>
    /\ UNCHANGED otherThanDash

DashNext ==
    \/ \E ok \in BOOLEAN : InitAvailable(ok)
    \/ \E ok \in BOOLEAN : InitConfigReply(ok)
    \/ \E ok \in BOOLEAN : \E r \in 0..MaxDashMatches : InitMatchesReply(ok, r)
    \/ \E ok \in BOOLEAN : \E n \in 0..MaxLogs : InitLogsReply(ok, n)
    \/ RefreshClick
    \/ \E ok \in BOOLEAN : \E r \in 0..MaxDashMatches : RefreshMatchesReply(ok, r)
    \/ \E ok \in BOOLEAN : \E b \in BOOLEAN : RefreshStatusReply(ok, b)
    \/ ToggleClick
    \/ \E ok \in BOOLEAN : ToggleReply(ok)
    \/ SaveClick
    \/ \E ok \in BOOLEAN : SaveReply(ok)
    \/ CheckClick
    \/ \E ok \in BOOLEAN : CheckReply(ok)
    \/ \E b \in BOOLEAN : StatusEvent(b)
    \/ DashMatchEvent
    \/ LogEvent
    \/ DismissError

----------------------------------------------------------------------------
(***************************************************************************)
(* Request helpers.  Three helpers issue the dashboards' one-shot calls:   *)
(*   "makeApiRequest"  the client of the pages dashboard,                  *)
(*   "apiCall"         the client of the components (services/apiService), *)
(*   "libApi"          the typed client of lib/api.ts (fetchStatus, ...),  *)
(*                     which TwitterMonitor uses.                          *)
(* A string is a sequence of tokens; `includes` is token membership and    *)
(* template literals are concatenations.  An HTTP status is its decimal    *)
(* text.  Time is counted in steps of TickMs from the moment of the call.  *)
(***************************************************************************)

TickMs == 1000

MaxElapsedMs == 7000

TimeoutMs == 5000

Helpers == {"makeApiRequest", "apiCall", "libApi"}

BaseUrl == "API_BASE_URL"

Statuses == {"200", "404", "500"}

Ok(st) == st = "200"

StatusText(st) ==
    CASE st = "200" -> "OK"
      [] st = "404" -> "Not Found"
      [] st = "500" -> "Internal Server Error"

\* Response bodies: the raw text, whether it parses as JSON, and the `detail`
\* field of the parsed object (<<>> when absent or when the text is not JSON).
Bodies ==
    { [text |-> <<"{detail:", "Monitoring is already running", "}">>, json |-> TRUE,
       detail |-> <<"Monitoring is already running">>],
      [text |-> <<"{detail:", "NetworkError", "in upstream", "}">>, json |-> TRUE,
       detail |-> <<"NetworkError", "in upstream">>],
      [text |-> <<"{}">>, json |-> TRUE, detail |-> <<>>],
      [text |-> <<"Bad Gateway">>, json |-> FALSE, detail |-> <<>>],
      [text |-> <<"NetworkError", "while contacting upstream">>, json |-> FALSE,
       detail |-> <<>>] }

Responses == [status : Statuses, body : Bodies]

\* What fetch() rejects with when no connection can be made: the message is
\* the browser's ("Failed to fetch" in Chromium, "NetworkError when attempting
\* to fetch resource." in Firefox).
FetchFailures ==
    { [name |-> "TypeError", message |-> <<"Failed to fetch">>],
      [name |-> "TypeError", message |-> <<"NetworkError", "when attempting to fetch resource.">>] }

AbortError == [name |-> "AbortError", message |-> <<"The user aborted a request.">>]

Includes(message, token) == \E i \in DOMAIN message : message[i] = token

Error(message) == [name |-> "Error", message |-> message]

Throws(e) == [kind |-> "error", error |-> e]

Returns == [kind |-> "value"]

HasTimeout(h) == h \in {"makeApiRequest", "apiCall"}

\* catch block of makeApiRequest
MakeApiRequestCatch(e) ==
    IF e.name = "AbortError"
    THEN Error(<<"Request timeout: API server at", BaseUrl, "took too long to respond.">>)
    ELSE IF e.message = <<"Failed to fetch">>
    THEN Error(<<"Cannot connect to API server at", BaseUrl,
                 ". Make sure the server is running and accessible.">>)
    ELSE IF Includes(e.message, "NetworkError")
    THEN Error(<<"Network error: Unable to connect to", BaseUrl,
                 ". Check your internet connection and server status.">>)
    ELSE e

\* catch block of apiCall
ApiCallCatch(e) ==
    IF e.name = "AbortError"
    THEN Error(<<"Request timeout: API server at", BaseUrl, "took too long to respond.">>)
    ELSE IF e.message = <<"Failed to fetch">>
    THEN Error(<<"Cannot connect to API server at", BaseUrl,
                 ". Please check that the backend server is running.">>)
    ELSE e

\* catch block of fetchStatus (lib/api.ts); it covers the awaited fetch() only:
\* handleResponse is returned without await, so its rejection passes through.
LibApiCatch(e) == Error(<<"Failed to fetch status:">> \o e.message)

Catch(h, e) ==
    CASE h = "makeApiRequest" -> MakeApiRequestCatch(e)
      [] h = "apiCall" -> ApiCallCatch(e)
      [] h = "libApi" -> LibApiCatch(e)

SyntaxError == [name |-> "SyntaxError", message |-> <<"Unexpected token">>]

\* response.json()
Json(r) == IF r.body.json THEN Returns ELSE Throws(SyntaxError)

\* makeApiRequest after the response has arrived
MakeApiRequestBody(r) ==
    LET thrown == IF ~Ok(r.status)
                  THEN Throws(Error(<<"HTTP Error", r.status, ":">> \o r.body.text))
                  ELSE Json(r)
    IN  IF thrown.kind = "error" THEN Throws(MakeApiRequestCatch(thrown.error)) ELSE thrown

\* apiCall after the response has arrived
ApiCallBody(r) ==
    LET thrown == IF ~Ok(r.status)
                  THEN Throws(Error(<<"API error:", r.status, StatusText(r.status)>>))
                  ELSE Json(r)
    IN  IF thrown.kind = "error" THEN Throws(ApiCallCatch(thrown.error)) ELSE thrown

\* try block of handleResponse for a non-ok response: what it throws
HandleResponseTry(r) ==
    IF r.body.json
    THEN Error(IF r.body.detail # <<>> THEN r.body.detail ELSE <<"API error:", r.status>>)
    ELSE SyntaxError

\* catch block of handleResponse: it catches whatever the try block threw
HandleResponseCatch(e, r) == Error(<<"API error:", r.status, StatusText(r.status)>>)

handleResponse(r) ==
    IF ~Ok(r.status)
    THEN Throws(HandleResponseCatch(HandleResponseTry(r), r))
    ELSE Json(r)

Settle(h, r) ==
    CASE h = "makeApiRequest" -> MakeApiRequestBody(r)
      [] h = "apiCall" -> ApiCallBody(r)
      [] h = "libApi" -> handleResponse(r)

Idle == [helper |-> "none", phase |-> "idle", elapsed |-> 0, armed |-> FALSE,
         response |-> <<>>, outcome |-> <<>>, aborted |-> FALSE]

ReqInit == call = Idle

\* A caller issues a request: the helper arms its abort timer, if it has one,
\* and awaits fetch().
Issue(h) ==
    /\ call.phase = "idle"
    /\ call' = [Idle EXCEPT !.helper = h, !.phase = "pending", !.armed = HasTimeout(h)]
    /\ UNCHANGED otherThanReq

\* Time passes while the call is suspended.  A timer that is due runs before
\* time moves on.
Tick ==
    /\ call.phase \in {"pending", "body"}
    /\ call.elapsed + TickMs <= MaxElapsedMs
    /\ ~(call.armed /\ call.elapsed >= TimeoutMs)
    /\ call' = [call EXCEPT !.elapsed = @ + TickMs]
    /\ UNCHANGED otherThanReq

\* setTimeout(() => controller.abort(), 5000): fetch() rejects with AbortError.
AbortTimer ==
    /\ call.phase = "pending"
    /\ call.armed
    /\ call.elapsed >= TimeoutMs
    /\ call' = [call EXCEPT !.phase = "settled", !.armed = FALSE, !.aborted = TRUE,
                            !.outcome = <<Throws(Catch(call.helper, AbortError))>>]
    /\ UNCHANGED otherThanReq

\* fetch() resolves with the response (status line and headers); the helper
\* clears its timer and goes on to read the body.
FetchResolves(r) ==
    /\ call.phase = "pending"
    /\ call' = [call EXCEPT !.phase = "body", !.armed = FALSE, !.response = <<r>>]
    /\ UNCHANGED otherThanReq

\* fetch() rejects: no connection.
FetchRejects(e) ==
    /\ call.phase = "pending"
    /\ call' = [call EXCEPT !.phase = "settled", !.outcome = <<Throws(Catch(call.helper, e))>>]
    /\ UNCHANGED otherThanReq

\* The body has been read (response.text() / response.json() resolves or
\* rejects) and the helper returns or throws.
BodyRead ==
    /\ call.phase = "body"
    /\ call' = [call EXCEPT !.phase = "settled",
                            !.outcome = <<Settle(call.helper, call.response[1])>>]
    /\ UNCHANGED otherThanReq

\* The caller has taken the outcome.
Done ==
    /\ call.phase = "settled"
    /\ call' = Idle
    /\ UNCHANGED otherThanReq

ReqNext ==
    \/ \E h \in Helpers : Issue(h)
    \/ Tick
    \/ AbortTimer
    \/ \E r \in Responses : FetchResolves(r)
    \/ \E e \in FetchFailures : FetchRejects(e)
    \/ BodyRead
    \/ Done

----------------------------------------------------------------------------
(***************************************************************************)
(* The pages dashboard: Home, with the poll of its mount effect, its       *)
(* start / stop / check-now handlers, and the components of its tabs       *)
(* (MatchesList on "matches", UsernameManager and ApiSettings on           *)
(* "settings").  All of them call the backend through makeApiRequest.      *)
(* The backend answers a request when it is reachable and the call fails   *)
(* with fetch()'s rejection when it is not; a request is served and its    *)
(* reply delivered in one step.  The backend has found no match.           *)
(***************************************************************************)

Tabs == {"dashboard", "matches", "settings"}

HomeActions == {"poll", "start", "stop", "check"}

Components == {"matchesList", "usernames", "apiSettings"}

\* The components a tab renders.
ComponentsOf(tab) ==
    CASE tab = "dashboard" -> {}
      [] tab = "matches" -> {"matchesList"}
      [] tab = "settings" -> {"usernames", "apiSettings"}

\* The message a component shows when its fetch fails.
LoadFailure(c) ==
    CASE c = "matchesList" -> <<"Failed to load matches. Please try again later.">>
      [] c = "usernames" -> <<"Failed to load username configuration.">>
      [] c = "apiSettings" -> <<"Failed to load API configuration.">>

\* The error a call of Home's client throws when fetch() rejects with e.
CallFailure(e) == MakeApiRequestCatch(e).message

\* GET /status as Home reads it.
StatusData == [running |-> srvRunning]

\* setStatus(statusData)
SetStatus(statusData) == <<statusData>>

\* disabled={loading || apiError || (status && status.running)}
StartDisabled == hLoading \/ apiError # <<>> \/ (hStatus # <<>> /\ hStatus[1].running)

\* disabled={loading || apiError || (status && !status.running)}
StopDisabled == hLoading \/ apiError # <<>> \/ (hStatus # <<>> /\ ~hStatus[1].running)

\* disabled={loading || apiError}
CheckDisabled == hLoading \/ apiError # <<>>

LoadingAfterActionStuck == TRUE

\* finally { setLoading(false) }
LoadingAfterAction == FALSE

NoCallInFlight == \A a \in HomeActions \cup Components : hpc[a] = "idle"

HomeInit ==
    /\ hStatus = <<>>
    /\ hLoading = TRUE
    /\ apiError = <<>>
    /\ notification = <<>>
    /\ activeTab = "dashboard"
    /\ hpc = [a \in HomeActions \cup Components |-> IF a = "poll" THEN "status" ELSE "idle"]
    /\ compError = [c \in Components |-> <<>>]
    /\ startClean = FALSE
    /\ srvRunning = FALSE
    /\ reachable = TRUE

\* setInterval(fetchData, 10000): fetchData runs up to its first await.
PollStart ==
    /\ hpc["poll"] = "idle"
    /\ hLoading' = TRUE
    /\ apiError' = <<>>
    /\ hpc' = [hpc EXCEPT !["poll"] = "status"]
    /\ UNCHANGED <<hStatus, notification, activeTab, compError, startClean, srvRunning,
                   reachable, pgRecentMatches>>
    /\ UNCHANGED otherThanHome

\* fetchData: fetchStatus() settles.
PollStatusReply(e) ==
    /\ hpc["poll"] = "status"
    /\ IF reachable
       THEN /\ hStatus' = SetStatus(StatusData)
            /\ hpc' = [hpc EXCEPT !["poll"] = "matches"]
            /\ UNCHANGED <<apiError, hLoading>>
       ELSE /\ apiError' = <<CallFailure(e)>>
            /\ hLoading' = FALSE
            /\ hpc' = [hpc EXCEPT !["poll"] = "idle"]
            /\ UNCHANGED hStatus
    /\ UNCHANGED <<notification, activeTab, compError, startClean, srvRunning, reachable,
                   pgRecentMatches>>
    /\ UNCHANGED otherThanHome

\* fetchData: getMatches(5) settles.
PollMatchesReply(e) ==
    /\ hpc["poll"] = "matches"
    /\ IF reachable
       THEN /\ pgRecentMatches' = Newest(nextId - 1, Min(PagesCap, nextId - 1))
            /\ UNCHANGED apiError
       ELSE /\ apiError' = <<CallFailure(e)>>
            /\ UNCHANGED pgRecentMatches
    /\ hLoading' = FALSE
    /\ hpc' = [hpc EXCEPT !["poll"] = "idle"]
    /\ UNCHANGED <<hStatus, notification, activeTab, compError, startClean, srvRunning,
                   reachable>>
    /\ UNCHANGED otherThanHome

\* handleStartMonitoring / handleStopMonitoring up to the first await.
ControlClick(a) ==
    /\ hpc[a] = "idle"
    /\ IF a = "start" THEN ~StartDisabled ELSE ~StopDisabled
    /\ startClean' = IF a = "start"
                     THEN NoCallInFlight /\ hStatus # <<>> /\ ~hStatus[1].running
                     ELSE startClean
    /\ hLoading' = TRUE
    /\ apiError' = <<>>
    /\ hpc' = [hpc EXCEPT ![a] = "call"]
    /\ UNCHANGED <<hStatus, notification, activeTab, compError, srvRunning, reachable,
                   pgRecentMatches>>
    /\ UNCHANGED otherThanHome

\* startMonitoring() / stopMonitoring() settles.
ControlReply(a) ==
    /\ a \in {"start", "stop"}
    /\ hpc[a] = "call"
    /\ IF reachable
       THEN /\ srvRunning' = (a = "start")
            /\ hpc' = [hpc EXCEPT ![a] = "status"]
            /\ UNCHANGED <<notification, hLoading>>
       ELSE /\ notification' = <<[type |-> "error", about |-> a]>>
            /\ hLoading' = LoadingAfterAction
            /\ hpc' = [hpc EXCEPT ![a] = "idle"]
            /\ UNCHANGED srvRunning
    /\ UNCHANGED <<hStatus, apiError, activeTab, compError, startClean, reachable,
                   pgRecentMatches>>
    /\ UNCHANGED otherThanHome

\* The fetchStatus() that follows startMonitoring() / stopMonitoring() settles.
ControlStatusReply(a) ==
    /\ a \in {"start", "stop"}
    /\ hpc[a] = "status"
    /\ IF reachable
       THEN /\ hStatus' = SetStatus(StatusData)
            /\ notification' = <<[type |-> "success", about |-> a]>>
       ELSE /\ notification' = <<[type |-> "error", about |-> a]>>
            /\ UNCHANGED hStatus
    /\ hLoading' = LoadingAfterAction
    /\ hpc' = [hpc EXCEPT ![a] = "idle"]
    /\ UNCHANGED <<apiError, activeTab, compError, startClean, srvRunning, reachable,
                   pgRecentMatches>>
    /\ UNCHANGED otherThanHome

\* handleCheckNow up to its await.
HomeCheckClick ==
    /\ hpc["check"] = "idle"
    /\ ~CheckDisabled
    /\ hLoading' = TRUE
    /\ apiError' = <<>>
    /\ hpc' = [hpc EXCEPT !["check"] = "call"]
    /\ UNCHANGED <<hStatus, notification, activeTab, compError, startClean, srvRunning,
                   reachable, pgRecentMatches>>
    /\ UNCHANGED otherThanHome

\* checkNow() settles (the backend has found nothing: new_matches is empty).
HomeCheckReply ==
    /\ hpc["check"] = "call"
    /\ notification' = <<[type |-> IF reachable THEN "success" ELSE "error", about |-> "check"]>>
    /\ hLoading' = LoadingAfterAction
    /\ hpc' = [hpc EXCEPT !["check"] = "idle"]
    /\ UNCHANGED <<hStatus, apiError, activeTab, compError, startClean, srvRunning,
                   reachable, pgRecentMatches>>
    /\ UNCHANGED otherThanHome

DismissNotification ==
    /\ notification # <<>>
    /\ notification' = <<>>
    /\ UNCHANGED <<hStatus, hLoading, apiError, activeTab, hpc, compError, startClean,
                   srvRunning, reachable, pgRecentMatches>>
    /\ UNCHANGED otherThanHome

\* retryConnection: apiMode is 'live' already, so the effect does not run again.
RetryConnection ==
    /\ apiError # <<>>
    /\ apiError' = <<>>
    /\ UNCHANGED <<hStatus, hLoading, notification, activeTab, hpc, compError, startClean,
                   srvRunning, reachable, pgRecentMatches>>
    /\ UNCHANGED otherThanHome

\* setActiveTab(tab): the components of the old tab unmount (their state is
\* dropped), those of the new tab mount and start their fetch.
SetActiveTab(tab) ==
    /\ tab # activeTab
    /\ activeTab' = tab
    /\ hpc' = [a \in DOMAIN hpc |->
                 IF a \in Components
                 THEN (IF a \in ComponentsOf(tab) THEN "call" ELSE "idle")
                 ELSE hpc[a]]
    /\ compError' = [c \in Components |-> <<>>]
    /\ UNCHANGED <<hStatus, hLoading, apiError, notification, startClean, srvRunning,
                   reachable, pgRecentMatches>>
    /\ UNCHANGED otherThanHome

\* The mount fetch of a tab component settles (getMatches / getConfig).
ComponentReply(c) ==
    /\ hpc[c] = "call"
    /\ compError' = [compError EXCEPT ![c] = IF reachable THEN <<>> ELSE <<LoadFailure(c)>>]
    /\ hpc' = [hpc EXCEPT ![c] = "idle"]
    /\ UNCHANGED <<hStatus, hLoading, apiError, notification, activeTab, startClean,
                   srvRunning, reachable, pgRecentMatches>>
    /\ UNCHANGED otherThanHome

\* The backend goes away or comes back.
Reachability ==
    /\ reachable' = ~reachable
    /\ UNCHANGED <<hStatus, hLoading, apiError, notification, activeTab, hpc, compError,
                   startClean, srvRunning, pgRecentMatches>>
    /\ UNCHANGED otherThanHome

HomeNext ==
    \/ PollStart
    \/ \E e \in FetchFailures : PollStatusReply(e)
    \/ \E e \in FetchFailures : PollMatchesReply(e)
    \/ \E a \in {"start", "stop"} : ControlClick(a)
    \/ \E a \in {"start", "stop"} : ControlReply(a)
    \/ \E a \in {"start", "stop"} : ControlStatusReply(a)
    \/ HomeCheckClick
    \/ HomeCheckReply
    \/ DismissNotification
    \/ RetryConnection
    \/ \E tab \in Tabs : SetActiveTab(tab)
    \/ \E c \in Components : ComponentReply(c)
    \/ Reachability

\* Home is mounted and the backend has found nothing.
MatchesHome ==
    /\ app = "pages"
    /\ nextId = 1
    /\ recentMatches = <<>>
    /\ pgRecentMatches = <<>>
    /\ cleanRun = 0

----------------------------------------------------------------------------
(***************************************************************************)
(* retryWithBackoff(fn, maxRetries, initialDelay).  maxRetries is a number,*)
(* not necessarily an integer: it is held in halves (maxRetries2 = 2 *     *)
(* maxRetries).  A delay is held as base * 2^exp, so that a delay beyond   *)
(* the range of a timer can be written down.  Invocations of fn are        *)
(* numbered from 1; an error is the number of the invocation that threw it.*)
(***************************************************************************)

MaxRetries == 3

MaxTimerDelay == 2147483647

InitialDelays == {-1000, 0, 1000, 1073741824}

Pow2(n) == IF n = 0 THEN 1 ELSE 2 ^ n

ExhaustedStrictly(retries, maxRetries2) == 2 * retries > maxRetries2

\* if (retries >= maxRetries)
Exhausted(retries, maxRetries2) == 2 * retries >= maxRetries2

BackoffDelayFixed(initialDelay, retries) == [base |-> initialDelay, exp |-> 0]

\* const delay = initialDelay * Math.pow(2, retries)
BackoffDelay(initialDelay, retries) == [base |-> initialDelay, exp |-> retries]

InTimerRange(d) == d.base >= 0 /\ d.base <= MaxTimerDelay \div Pow2(d.exp)

\* setTimeout(resolve, delay): how long the timer can take to fire.  A negative
\* delay is 0; a delay above 2^31 - 1 overflows the timer's 32-bit field and
\* fires at once (0 ms, or 1 ms where the runtime substitutes 1).
TimerWaits(d) ==
    IF d.base < 0 THEN {0}
    ELSE IF ~InTimerRange(d) THEN {0, 1}
    ELSE {d.base * Pow2(d.exp)}

RetryInit ==
    \E m2 \in -2..(2 * MaxRetries) : \E d \in InitialDelays :
        retry = [maxRetries2 |-> m2, initialDelay |-> d, retries |-> 0, phase |-> "call",
                 invocations |-> 1, failed |-> 0, waits |-> <<>>, outcome |-> <<>>]

\* return await fn(): the invocation resolves.
FnResolves ==
    /\ retry.phase = "call"
    /\ retry' = [retry EXCEPT !.phase = "returned",
                              !.outcome = <<[kind |-> "value", of |-> retry.invocations]>>]
    /\ UNCHANGED otherThanRetry

\* The invocation rejects: rethrow when the retries are used up, else start
\* the timer of the next retry.
FnRejects ==
    /\ retry.phase = "call"
    /\ IF Exhausted(retry.retries, retry.maxRetries2)
       THEN retry' = [retry EXCEPT !.phase = "thrown", !.failed = @ + 1,
                                   !.outcome = <<[kind |-> "error", of |-> retry.invocations]>>]
       ELSE \E w \in TimerWaits(BackoffDelay(retry.initialDelay, retry.retries)) :
               retry' = [retry EXCEPT
                           !.phase = "wait", !.failed = @ + 1,
                           !.waits = Append(@, [delay |-> BackoffDelay(retry.initialDelay,
                                                                       retry.retries),
                                                waited |-> w])]
    /\ UNCHANGED otherThanRetry

\* The timer fires: retries++ and the loop invokes fn again.
WaitElapses ==
    /\ retry.phase = "wait"
    /\ retry' = [retry EXCEPT !.phase = "call", !.retries = @ + 1, !.invocations = @ + 1]
    /\ UNCHANGED otherThanRetry

RetryNext ==
    \/ FnResolves
    \/ FnRejects
    \/ WaitElapses

\* retryWithBackoff has not been called.
RetryQuiet ==
    retry = [maxRetries2 |-> 2 * MaxRetries, initialDelay |-> 1000, retries |-> 0,
             phase |-> "idle", invocations |-> 0, failed |-> 0, waits |-> <<>>,
             outcome |-> <<>>]

----------------------------------------------------------------------------
(***************************************************************************)
(* Messages on the streams.  The server numbers the messages of a channel  *)
(* in the order it emits them and writes each one to every connection that *)
(* is open on that channel; a connection delivers in order; the onmessage  *)
(* handler of the source applies what is delivered (setLogs appends it,    *)
(* setRecentMatches prepends it, setStatus merges it).                     *)
(***************************************************************************)

MaxEmit == 2

DeliverInit ==
    /\ emitted = [k \in 1..3 |-> 0]
    /\ inflight = <<>>
    /\ applied = [k \in 1..3 |-> <<>>]

ChannelNo(c) == CHOOSE k \in 1..3 : Channels[k] = c

OpenOn(k) == {i \in DOMAIN sources : sources[i].channel = Channels[k] /\ sources[i].readyState = OPEN}

RECURSIVE Copies(_, _, _)
\* One copy of message id of channel k for each source from i on that is open on it.
Copies(k, id, i) ==
    IF i > Len(sources) THEN <<>>
    ELSE (IF i \in OpenOn(k) THEN <<[source |-> i, id |-> id]>> ELSE <<>>)
             \o Copies(k, id, i + 1)

\* The server emits the next message of channel k.
Emit(k) ==
    /\ emitted[1] + emitted[2] + emitted[3] < MaxEmit
    /\ emitted' = [emitted EXCEPT ![k] = @ + 1]
    /\ inflight' = inflight \o Copies(k, emitted[k] + 1, 1)
    /\ UNCHANGED applied
    /\ UNCHANGED streamVars
    /\ UNCHANGED otherThanDeliver

\* The positions of inflight that hold the oldest message of their source.
Heads == {n \in DOMAIN inflight :
             \A m \in 1..(n - 1) : inflight[m].source # inflight[n].source}

Without(seq, n) == SubSeq(seq, 1, n - 1) \o SubSeq(seq, n + 1, Len(seq))

\* onmessage of an open source runs on the oldest message written to it.
Deliver(n) ==
    /\ n \in Heads
    /\ sources[inflight[n].source].readyState = OPEN
    /\ applied' = [applied EXCEPT ![ChannelNo(sources[inflight[n].source].channel)] =
                       Append(@, inflight[n].id)]
    /\ inflight' = Without(inflight, n)
    /\ lateMsg' = (lateMsg \/ unmounted)
    /\ UNCHANGED <<sources, timers, unmounted, sseError, emitted>>
    /\ UNCHANGED otherThanDeliver

\* What was written to a connection that dropped or was closed is lost.
Lost(n) ==
    /\ n \in DOMAIN inflight
    /\ sources[inflight[n].source].readyState # OPEN
    /\ inflight' = Without(inflight, n)
    /\ UNCHANGED <<emitted, applied>>
    /\ UNCHANGED streamVars
    /\ UNCHANGED otherThanDeliver

DeliverNext ==
    \/ \E i \in DOMAIN sources : Connected(i)
    \/ \E i \in DOMAIN sources : \E after \in {CONNECTING, CLOSED} : StreamError(i, after)
    \/ ReconnectTimer
    \/ Unmount
    \/ \E k \in 1..3 : Emit(k)
    \/ \E n \in DOMAIN inflight : Deliver(n)
    \/ \E n \in DOMAIN inflight : Lost(n)

----------------------------------------------------------------------------
(***************************************************************************)
(* The configuration.  A configuration has the sections twitter, telegram  *)
(* and monitoring; one field stands for the text fields of a section.  The *)
(* backend is not part of this repository: it returns its copy on a fetch  *)
(* and on a save it stores what it is sent, section by section and field   *)
(* by field (for a complete record: the record).                          *)
(***************************************************************************)

MaxUsernames == 2

Sections == {"twitter", "telegram", "monitoring"}

Names == {"alice", "bob"}

Keys == {"", "key"}

ChannelIds == {"", "chan"}

\* useState<FullConfig>({...})
DefaultConfig ==
    [twitter |-> [api_key |-> ""],
     telegram |-> [channel_id |-> ""],
     monitoring |-> [check_interval_minutes |-> 15, usernames |-> <<>>]]

\* The backend's answer to a fetch of /config.
Get(st) == st

\* The backend's copy after it was sent body.
Store(st, body) ==
    [sec \in Sections |->
        IF sec \in DOMAIN body
        THEN [f \in DOMAIN st[sec] |-> IF f \in DOMAIN body[sec] THEN body[sec][f] ELSE st[sec][f]]
        ELSE st[sec]]

\* updateConfig(config): body: JSON.stringify(config)
SaveBody(conf) == conf

AfterSaveReset(conf) == DefaultConfig

\* saveConfiguration leaves config as it is.
AfterSave(conf) == conf

\* UsernameManager.handleSaveChanges: updateConfig({monitoring: {usernames}})
UsernamesBody(names) == [monitoring |-> [usernames |-> names]]

LastTwo(seq) == IF Len(seq) > 2 THEN SubSeq(seq, Len(seq) - 1, Len(seq)) ELSE seq

\* What the backend holds when the dashboards are opened.
ConfigInitStored ==
    [twitter |-> [api_key |-> "key"],
     telegram |-> [channel_id |-> "chan"],
     monitoring |-> [check_interval_minutes |-> 15, usernames |-> <<"alice">>]]

ConfigInit ==
    /\ stored = ConfigInitStored
    /\ cfg = DefaultConfig
    /\ umUsernames = <<>>
    /\ lastPut = <<>>
    /\ lastSave = <<>>
    /\ fetchRun = <<>>

\* fetchInitialData: const configData = await fetchConfig(); setConfig(configData)
TMFetchConfig ==
    /\ cfg' = Get(stored)
    /\ fetchRun' = LastTwo(Append(fetchRun, Get(stored)))
    /\ lastSave' = IF cfg' = cfg THEN lastSave ELSE <<>>
    /\ UNCHANGED <<stored, umUsernames, lastPut>>
    /\ UNCHANGED otherThanConfig

\* handleConfigChange(section, field): setConfig({...config, [section]: {...config[section], [field]: value}})
TMEdit(section, value) ==
    /\ cfg' = CASE section = "twitter" -> [cfg EXCEPT !.twitter.api_key = value]
                [] section = "telegram" -> [cfg EXCEPT !.telegram.channel_id = value]
                [] section = "monitoring" -> [cfg EXCEPT !.monitoring.usernames = value]
    /\ cfg' # cfg
    /\ lastSave' = <<>>
    /\ UNCHANGED <<stored, umUsernames, lastPut, fetchRun>>
    /\ UNCHANGED otherThanConfig

\* saveConfiguration: await updateConfig(config) succeeds.
TMSave ==
    /\ stored' = Store(stored, SaveBody(cfg))
    /\ cfg' = AfterSave(cfg)
    /\ lastPut' = <<[by |-> "TwitterMonitor", body |-> SaveBody(cfg)]>>
    /\ lastSave' = IF lastSave = <<>>
                   THEN <<[stored |-> stored', client |-> cfg', saves |-> 1]>>
                   ELSE <<[lastSave[1] EXCEPT !.saves = 2]>>
    /\ fetchRun' = <<>>
    /\ UNCHANGED umUsernames
    /\ UNCHANGED otherThanConfig

\* UsernameManager mount: getConfig(), setUsernames(config.monitoring.usernames)
UMFetchConfig ==
    /\ umUsernames' = Get(stored).monitoring.usernames
    /\ fetchRun' = LastTwo(Append(fetchRun, Get(stored)))
    /\ UNCHANGED <<stored, cfg, lastPut, lastSave>>
    /\ UNCHANGED otherThanConfig

\* handleAddUsername: a name that is in the list already is refused.
UMAdd(name) ==
    /\ \A i \in DOMAIN umUsernames : umUsernames[i] # name
    /\ Len(umUsernames) < MaxUsernames
    /\ umUsernames' = Append(umUsernames, name)
    /\ UNCHANGED <<stored, cfg, lastPut, lastSave, fetchRun>>
    /\ UNCHANGED otherThanConfig

\* handleRemoveUsername(index): splice(index, 1)
UMRemove(i) ==
    /\ i \in DOMAIN umUsernames
    /\ umUsernames' = SubSeq(umUsernames, 1, i - 1) \o SubSeq(umUsernames, i + 1, Len(umUsernames))
    /\ UNCHANGED <<stored, cfg, lastPut, lastSave, fetchRun>>
    /\ UNCHANGED otherThanConfig

\* handleSaveChanges: await updateConfig({monitoring: {usernames}}) succeeds.
UMSave ==
    /\ stored' = Store(stored, UsernamesBody(umUsernames))
    /\ lastPut' = <<[by |-> "UsernameManager", body |-> UsernamesBody(umUsernames)]>>
    /\ lastSave' = <<>>
    /\ fetchRun' = <<>>
    /\ UNCHANGED <<cfg, umUsernames>>
    /\ UNCHANGED otherThanConfig

UsernameLists == {<<>>} \cup {<<n>> : n \in Names}

ConfigNext ==
    \/ TMFetchConfig
    \/ \E v \in Keys : TMEdit("twitter", v)
    \/ \E v \in ChannelIds : TMEdit("telegram", v)
    \/ \E v \in UsernameLists : TMEdit("monitoring", v)
    \/ TMSave
    \/ UMFetchConfig
    \/ \E n \in Names : UMAdd(n)
    \/ \E i \in 1..MaxUsernames : UMRemove(i)
    \/ UMSave

----------------------------------------------------------------------------
(***************************************************************************)
(* The logs tab.  A log line is a string, held as its characters; the      *)
(* lines tried are the concatenations of a few pieces, among them pieces   *)
(* that make up a marker only when put together.                           *)
(***************************************************************************)

MaxPieces == 3

ERROR == <<"E", "R", "R", "O", "R">>

WARNING == <<"W", "A", "R", "N", "I", "N", "G">>

INFO == <<"I", "N", "F", "O">>

Pieces ==
    {ERROR, WARNING, INFO, <<"E", "R", "R">>, <<"O", "R">>, <<"e", "r", "r", "o", "r">>,
     <<"I", "N">>, <<"F", "O">>, <<" ">>}

RECURSIVE Flat(_)
Flat(pieces) == IF pieces = <<>> THEN <<>> ELSE Head(pieces) \o Flat(Tail(pieces))

LogLines == {Flat(ps) : ps \in UNION {[1..n -> Pieces] : n \in 0..MaxPieces}}

StartsWith(str, marker) ==
    /\ Len(str) >= Len(marker)
    /\ SubSeq(str, 1, Len(marker)) = marker

RECURSIVE StrIncludes(_, _)
\* log.includes(marker): scan from the left.
StrIncludes(str, marker) ==
    IF Len(str) < Len(marker) THEN FALSE
    ELSE StartsWith(str, marker) \/ StrIncludes(Tail(str), marker)

LogClassNameInfoFirst(log) ==
    IF StrIncludes(log, INFO) THEN "text-blue-500"
    ELSE IF StrIncludes(log, WARNING) THEN "text-yellow-500"
    ELSE IF StrIncludes(log, ERROR) THEN "text-red-500"
    ELSE "text-green-500"

\* className of a log line
LogClassName(log) ==
    IF StrIncludes(log, ERROR) THEN "text-red-500"
    ELSE IF StrIncludes(log, WARNING) THEN "text-yellow-500"
    ELSE IF StrIncludes(log, INFO) THEN "text-blue-500"
    ELSE "text-green-500"

LogInit ==
    /\ logLine \in LogLines
    /\ logStyle = None

\* logs.map(...) renders the line.
RenderLog ==
    /\ logStyle = None
    /\ logStyle' = LogClassName(logLine)
    /\ UNCHANGED logLine
    /\ UNCHANGED otherThanLog

LogNext == RenderLog

\* No line is on the logs tab.
LogQuiet ==
    /\ logLine = <<>>
    /\ logStyle = None

----------------------------------------------------------------------------
(***************************************************************************)
(* Stream messages whose data is not JSON.  JSON.parse throws inside the   *)
(* try of the onmessage handler; its catch calls console.error.            *)
(***************************************************************************)

MaxParseErrors == 2

\* Variables that an onmessage handler whose JSON.parse throws never touches,
\* besides the EventSource machine's.
otherThanParse == <<matchVars, dashVars, call, homeVars, retry, deliverVars, configVars,
                    logVars,
    toggleVars,
    listVars,
    nameVars>>

ParseInit == parseErrors = 0

\* catch (err) { console.error("Error parsing ... update:", err) }
OnMessageCatch(errors) == errors + 1

\* onmessage of source i runs on data that is not JSON: JSON.parse throws,
\* the state setters after it do not run, the catch logs.
MessageUnparsable(i) ==
    /\ sources[i].readyState = OPEN
    /\ parseErrors < MaxParseErrors
    /\ parseErrors' = OnMessageCatch(parseErrors)
    /\ lateMsg' = (lateMsg \/ unmounted)
    /\ UNCHANGED <<sources, timers, unmounted, sseError>>
    /\ UNCHANGED otherThanParse

ParseNext ==
    \/ StreamNext
    \/ \E i \in DOMAIN sources : MessageUnparsable(i)

----------------------------------------------------------------------------
(***************************************************************************)
(* The Start/Stop control of TwitterMonitor.  Each activation runs         *)
(* toggleMonitoring up to its await; the calls in flight are kept one by   *)
(* one, so that two of them at once would show.                            *)
(***************************************************************************)

MaxToggles == 4

\* Variables that the Start/Stop control never touches.
otherThanToggle == <<streamVars, matchVars, status, config, logs, pc, toggleDir, changed,
                     lastFailure, lastStatusPayload, lastWriter, call, homeVars, retry,
                     deliverVars, configVars, logVars, parseVars,
    listVars,
    nameVars>>

ToggleInit ==
    /\ isTogglingMonitor = FALSE
    /\ toggleCalls = <<>>
    /\ toggleSent = <<>>

\* The dashboard once fetchInitialData has finished (loading is false and the
\* header with the control is rendered).
DashLoaded ==
    /\ isRunning = FALSE
    /\ status = <<>>
    /\ config = "default"
    /\ logs = <<>>
    /\ error = None
    /\ pc = [a \in Actions |-> IF a = "init" THEN "done" ELSE "idle"]
    /\ toggleDir = None
    /\ changed = [a \in Actions |-> {}]
    /\ lastFailure = <<>>
    /\ lastStatusPayload = <<>>
    /\ lastWriter = None

\* A mutant of ToggleEnabled: the control ignores the flag.
ToggleEnabledAlways(flag) == TRUE

\* <Button onClick={toggleMonitoring} disabled={isTogglingMonitor}>
ToggleEnabled(flag) == ~flag

\* `Failed to ${isRunning ? 'stop' : 'start'} monitoring: ...`
ToggleFailure(dir) == IF dir = "stop" THEN "Failed to stop monitoring" ELSE "Failed to start monitoring"

\* The control is activated: setError(null); setIsTogglingMonitor(true);
\* stopMonitoring() or startMonitoring() by the isRunning of this render.
\* React commits the two updates before the browser handles another event.
ToggleActivate ==
    /\ ~Loading
    /\ ToggleEnabled(isTogglingMonitor)
    /\ Len(toggleSent) < MaxToggles
    /\ error' = None
    /\ isTogglingMonitor' = TRUE
    /\ toggleCalls' = Append(toggleCalls, ToggleBranch(isRunning))
    /\ toggleSent' = Append(toggleSent, ToggleBranch(isRunning))
    /\ UNCHANGED isRunning
    /\ UNCHANGED otherThanToggle

\* The call in flight at position k settles: setIsRunning by the branch taken,
\* or the catch's setError; finally setIsTogglingMonitor(false).
ToggleSettles(k, ok) ==
    /\ k \in DOMAIN toggleCalls
    /\ IF ok
       THEN /\ isRunning' = RunningAfterToggle(toggleCalls[k])
            /\ UNCHANGED error
       ELSE /\ error' = ToggleFailure(toggleCalls[k])
            /\ UNCHANGED isRunning
    /\ isTogglingMonitor' = FALSE
    /\ toggleCalls' = SubSeq(toggleCalls, 1, k - 1) \o SubSeq(toggleCalls, k + 1, Len(toggleCalls))
    /\ UNCHANGED toggleSent
    /\ UNCHANGED otherThanToggle

ToggleNext ==
    \/ ToggleActivate
    \/ \E k \in DOMAIN toggleCalls : \E ok \in BOOLEAN : ToggleSettles(k, ok)
    \/ \E b \in BOOLEAN : StatusEvent(b)

----------------------------------------------------------------------------
(***************************************************************************)
(* MatchesList.  A change of the limit runs the effect, which fetches; the *)
(* Refresh button fetches too.  Nothing cancels a fetch, so several can be *)
(* in flight, and each one writes matches when it settles.                 *)
(***************************************************************************)

MaxFetches == 3

DefaultLimit == 20

\* <option value={10}> ... <option value={100}>
Limits == {10, 20, 50, 100}

\* How many matches the backend may hold.
ListTotals == {0, 15, 30, 120}

\* Variables that MatchesList never touches.
otherThanList == <<streamVars, matchVars, dashVars, call, homeVars, retry, deliverVars,
                   configVars, logVars, parseVars, toggleVars,
    nameVars>>

\* GET /matches?limit=<limit>: the newest matches, at most limit of them.
GetMatches(limit, total) == Min(limit, total)

\* getMatches(limit) is called: one more call in flight.
IssueFetch(calls, req, limit) == calls \cup {[req |-> req, limit |-> limit]}

\* The component is mounted: the effect has run fetchMatches up to its await.
ListInit ==
    /\ mlLimit = DefaultLimit
    /\ mlMatches = 0
    /\ mlLoading = TRUE
    /\ mlError = None
    /\ mlCalls = IssueFetch({}, 1, DefaultLimit)
    /\ mlNextReq = 2
    /\ mlLatest = [limit |-> DefaultLimit, outcome |-> "pending"]
    /\ mlTotal \in ListTotals

\* The component is not mounted.
ListQuiet ==
    /\ mlLimit = DefaultLimit
    /\ mlMatches = 0
    /\ mlLoading = TRUE
    /\ mlError = None
    /\ mlCalls = {}
    /\ mlNextReq = 1
    /\ mlLatest = [limit |-> DefaultLimit, outcome |-> "pending"]
    /\ mlTotal = 0

\* onChange of the select: setLimit(Number(e.target.value)); the effect on
\* [limit] runs fetchMatches up to its await.  The select is never disabled.
SelectLimit(limit) ==
    /\ limit # mlLimit
    /\ mlNextReq <= MaxFetches
    /\ mlLimit' = limit
    /\ mlLoading' = TRUE
    /\ mlCalls' = IssueFetch(mlCalls, mlNextReq, limit)
    /\ mlNextReq' = mlNextReq + 1
    /\ mlLatest' = [limit |-> limit, outcome |-> "pending"]
    /\ UNCHANGED <<mlMatches, mlError, mlTotal>>
    /\ UNCHANGED otherThanList

\* handleRefresh up to its await (the button is disabled while loading).
ListRefresh ==
    /\ ~mlLoading
    /\ mlNextReq <= MaxFetches
    /\ mlLoading' = TRUE
    /\ mlCalls' = IssueFetch(mlCalls, mlNextReq, mlLimit)
    /\ mlNextReq' = mlNextReq + 1
    /\ mlLatest' = [limit |-> mlLimit, outcome |-> "pending"]
    /\ UNCHANGED <<mlLimit, mlMatches, mlError, mlTotal>>
    /\ UNCHANGED otherThanList

\* A getMatches call settles: setMatches(data); setError(null), or the
\* catch's setError; finally setLoading(false).
ListFetchSettles(c, ok) ==
    /\ c \in mlCalls
    /\ IF ok
       THEN /\ mlMatches' = GetMatches(c.limit, mlTotal)
            /\ mlError' = None
       ELSE /\ mlError' = "Failed to load matches"
            /\ UNCHANGED mlMatches
    /\ mlLoading' = FALSE
    /\ mlCalls' = mlCalls \ {c}
    /\ mlLatest' = IF c.req = mlNextReq - 1
                   THEN [mlLatest EXCEPT !.outcome = IF ok THEN "ok" ELSE "failed"]
                   ELSE mlLatest
    /\ UNCHANGED <<mlLimit, mlNextReq, mlTotal>>
    /\ UNCHANGED otherThanList

ListNext ==
    \/ \E limit \in Limits : SelectLimit(limit)
    \/ ListRefresh
    \/ \E c \in mlCalls : \E ok \in BOOLEAN : ListFetchSettles(c, ok)

----------------------------------------------------------------------------
(***************************************************************************)
(* UsernameManager's list, name by name.  The text of the input and the    *)
(* names are strings, held as their characters.                            *)
(***************************************************************************)

MaxListLen == 3

\* Variables that adding and removing usernames never touches.
otherThanNames == <<streamVars, matchVars, dashVars, call, homeVars, retry, deliverVars,
                    configVars, logVars, parseVars, toggleVars, listVars>>

\* Texts the user types.
Typed ==
    {<<>>, <<" ">>, <<"@">>, <<" ", "@", " ">>, <<"@", " ">>,
     <<"a">>, <<"@", "a">>, <<" ", "a", " ">>, <<"@", "@", "a">>, <<"@", " ", "a">>,
     <<"b">>, <<" ", "@", "b">>, <<"A">>}

\* Lists a fetch of /config may hand to setUsernames.
FetchedLists == {<<>>, <<<<"a">>>>, <<<<"b">>, <<"a">>>>}

WhiteSpace == {" "}

RECURSIVE TrimStart(_)
TrimStart(str) ==
    IF str # <<>> /\ Head(str) \in WhiteSpace THEN TrimStart(Tail(str)) ELSE str

RECURSIVE TrimEnd(_)
TrimEnd(str) ==
    IF str # <<>> /\ str[Len(str)] \in WhiteSpace
    THEN TrimEnd(SubSeq(str, 1, Len(str) - 1))
    ELSE str

\* String.prototype.trim
Trim(str) == TrimEnd(TrimStart(str))

\* .replace(/^@/, '')
StripAt(str) == IF str # <<>> /\ Head(str) = "@" THEN Tail(str) ELSE str

\* const cleanUsername = newUsername.trim().replace(/^@/, '')
CleanUsername(text) == StripAt(Trim(text))

\* A mutant of UsernamesInclude: the list is not looked at.
UsernamesIncludeNever(list, name) == FALSE

\* usernames.includes(cleanUsername)
UsernamesInclude(list, name) == \E i \in DOMAIN list : list[i] = name

\* updatedUsernames.splice(index, 1)
Splice(list, index) == SubSeq(list, 1, index - 1) \o SubSeq(list, index + 1, Len(list))

\* The list has been fetched.
NamesInit ==
    /\ usernames \in FetchedLists
    /\ newUsername = <<>>
    /\ umError = None
    /\ umLastOp = [op |-> "fetch"]

\* The component is not mounted.
NamesQuiet ==
    /\ usernames = <<>>
    /\ newUsername = <<>>
    /\ umError = None
    /\ umLastOp = [op |-> "none"]

\* onChange of the input: setNewUsername(e.target.value)
TypeUsername(text) ==
    /\ newUsername' = text
    /\ umLastOp' = [op |-> "type"]
    /\ UNCHANGED <<usernames, umError>>
    /\ UNCHANGED otherThanNames

\* handleAddUsername (the button is disabled while newUsername.trim() is empty).
\* The guard on the length keeps the list within MaxListLen.
HandleAddUsername ==
    /\ Trim(newUsername) # <<>>
    /\ Len(usernames) < MaxListLen
    /\ umLastOp' = [op |-> "add"]
    /\ IF CleanUsername(newUsername) = <<>>
       THEN /\ umError' = "Please enter a valid username"
            /\ UNCHANGED <<usernames, newUsername>>
       ELSE IF UsernamesInclude(usernames, CleanUsername(newUsername))
       THEN /\ umError' = "This username is already in the list"
            /\ UNCHANGED <<usernames, newUsername>>
       ELSE /\ usernames' = Append(usernames, CleanUsername(newUsername))
            /\ newUsername' = <<>>
            /\ umError' = None
    /\ UNCHANGED otherThanNames

\* handleRemoveUsername(index)
HandleRemoveUsername(index) ==
    /\ index \in DOMAIN usernames
    /\ usernames' = Splice(usernames, index)
    /\ umLastOp' = [op |-> "remove", index |-> index]
    /\ UNCHANGED <<newUsername, umError>>
    /\ UNCHANGED otherThanNames

NamesNext ==
    \/ \E text \in Typed : TypeUsername(text)
    \/ HandleAddUsername
    \/ \E index \in DOMAIN usernames : HandleRemoveUsername(index)

----------------------------------------------------------------------------
(* Specifications *)

InitStream == StreamInit /\ MatchesQuiet /\ DashInit /\ ReqInit /\ HomeInit /\ RetryQuiet /\
    DeliverInit /\ ConfigInit /\ LogQuiet /\ ParseInit /\ ToggleInit /\ ListQuiet /\ NamesQuiet

SpecStream == InitStream /\ [][StreamNext]_vars

\* The event loop runs every timer callback that is due.
SpecStreamFair == SpecStream /\ WF_vars(ReconnectTimer)

InitMatches == StreamInit /\ MatchesInit /\ DashInit /\ ReqInit /\ HomeInit /\ RetryQuiet /\
    DeliverInit /\ ConfigInit /\ LogQuiet /\ ParseInit /\ ToggleInit /\ ListQuiet /\ NamesQuiet

SpecMatches == InitMatches /\ [][MatchesNext]_vars

InitDash == StreamInit /\ MatchesQuiet /\ DashInit /\ ReqInit /\ HomeInit /\ RetryQuiet /\
    DeliverInit /\ ConfigInit /\ LogQuiet /\ ParseInit /\ ToggleInit /\ ListQuiet /\ NamesQuiet

SpecDash == InitDash /\ [][DashNext]_vars

InitReq == StreamInit /\ MatchesQuiet /\ DashInit /\ ReqInit /\ HomeInit /\ RetryQuiet /\
    DeliverInit /\ ConfigInit /\ LogQuiet /\ ParseInit /\ ToggleInit /\ ListQuiet /\ NamesQuiet

SpecReq == InitReq /\ [][ReqNext]_vars

InitHome == StreamInit /\ MatchesHome /\ DashInit /\ ReqInit /\ HomeInit /\ RetryQuiet /\
    DeliverInit /\ ConfigInit /\ LogQuiet /\ ParseInit /\ ToggleInit /\ ListQuiet /\ NamesQuiet

SpecHome == InitHome /\ [][HomeNext]_vars

InitRetry == StreamInit /\ MatchesQuiet /\ DashInit /\ ReqInit /\ HomeInit /\ RetryInit /\
    DeliverInit /\ ConfigInit /\ LogQuiet /\ ParseInit /\ ToggleInit /\ ListQuiet /\ NamesQuiet

SpecRetry == InitRetry /\ [][RetryNext]_vars

InitDeliver == StreamInit /\ MatchesQuiet /\ DashInit /\ ReqInit /\ HomeInit /\ RetryQuiet /\
    DeliverInit /\ ConfigInit /\ LogQuiet /\ ParseInit /\ ToggleInit /\ ListQuiet /\ NamesQuiet

SpecDeliver == InitDeliver /\ [][DeliverNext]_vars

InitConfig == StreamInit /\ MatchesQuiet /\ DashInit /\ ReqInit /\ HomeInit /\ RetryQuiet /\
    DeliverInit /\ ConfigInit /\ LogQuiet /\ ParseInit /\ ToggleInit /\ ListQuiet /\ NamesQuiet

SpecConfig == InitConfig /\ [][ConfigNext]_vars

InitLogStyle == StreamInit /\ MatchesQuiet /\ DashInit /\ ReqInit /\ HomeInit /\ RetryQuiet /\
    DeliverInit /\ ConfigInit /\ LogInit /\ ParseInit /\ ToggleInit /\ ListQuiet /\ NamesQuiet

SpecLogStyle == InitLogStyle /\ [][LogNext]_vars

InitParse == StreamInit /\ MatchesQuiet /\ DashInit /\ ReqInit /\ HomeInit /\ RetryQuiet /\
    DeliverInit /\ ConfigInit /\ LogQuiet /\ ParseInit /\ ToggleInit /\ ListQuiet /\ NamesQuiet

SpecParse == InitParse /\ [][ParseNext]_vars

InitToggle == StreamInit /\ MatchesQuiet /\ DashLoaded /\ ReqInit /\ HomeInit /\ RetryQuiet /\
    DeliverInit /\ ConfigInit /\ LogQuiet /\ ParseInit /\ ToggleInit /\ ListQuiet /\ NamesQuiet

SpecToggle == InitToggle /\ [][ToggleNext]_vars

InitList == StreamInit /\ MatchesQuiet /\ DashInit /\ ReqInit /\ HomeInit /\ RetryQuiet /\
    DeliverInit /\ ConfigInit /\ LogQuiet /\ ParseInit /\ ToggleInit /\ ListInit /\ NamesQuiet

SpecList == InitList /\ [][ListNext]_vars

InitNames == StreamInit /\ MatchesQuiet /\ DashInit /\ ReqInit /\ HomeInit /\ RetryQuiet /\
    DeliverInit /\ ConfigInit /\ LogQuiet /\ ParseInit /\ ToggleInit /\ ListQuiet /\ NamesInit

SpecNames == InitNames /\ [][NamesNext]_vars

\* fn settles, and a timer that was started fires.
SpecRetryFair == SpecRetry /\ WF_vars(FnResolves \/ FnRejects) /\ WF_vars(WaitElapses)

----------------------------------------------------------------------------
(* Claims about the EventSource life cycle *)

Live(c) == {i \in DOMAIN sources : sources[i].channel = c /\ sources[i].readyState # CLOSED}

ChannelSet == {Channels[k] : k \in 1..3}

\* C1: after any sequence of stream errors, reconnect timer firings and message
\* deliveries, at most one EventSource that is not closed exists per channel.
C1_OneHandlePerChannel == \A c \in ChannelSet : Cardinality(Live(c)) <= 1

\* C2: after the effect cleanup has closed the stream handles, no EventSource is
\* open (and so none delivers a message that could change the view state).
C2_NothingOpenAfterCleanup ==
    unmounted => /\ \A i \in DOMAIN sources : sources[i].readyState = CLOSED
                 /\ lateMsg = FALSE

Attempts(c) == Cardinality({i \in DOMAIN sources : sources[i].channel = c})

DropPending(c) == \E k \in 1..Len(timers) : sources[timers[k].source].channel = c

\* C3: every stream error schedules a reconnect with the same fixed delay of
\* 5000 ms; when the timer fires the failed source is closed and a new source
\* is constructed for its channel; every drop is eventually followed by a new
\* connection attempt on the dropped channel.
C3_DropLeadsToReconnect ==
    /\ [](\A k \in 1..Len(timers) : timers[k].delay = ReconnectDelayMs)
    /\ [][timers # <<>> /\ timers' = Tail(timers) =>
            LET f == Head(timers).source IN
            /\ sources'[f].readyState = CLOSED
            /\ \E j \in (Len(sources) + 1)..Len(sources') :
                  /\ sources'[j].channel = sources[f].channel
                  /\ sources'[j].readyState = CONNECTING]_vars
    /\ \A c \in ChannelSet : \A n \in 1..MaxSetups :
          (DropPending(c) /\ Attempts(c) = n) ~> (Attempts(c) > n)

\* A drop on the status channel has been followed by its reconnect, twice.
C3_Witness ==
    /\ timers = <<>>
    /\ Attempts("status") = 3
    /\ \E i \in DOMAIN sources : sources[i].channel = "status" /\ sources[i].readyState = CONNECTING
    /\ sseError = "status"

----------------------------------------------------------------------------
(* Claims about the recent-matches lists *)

\* C4: every match stream event prepends the new match and truncates the
\* result to 10 (new list = first 10 of <match> followed by the old list);
\* from an empty list, n sequential events leave the min(n, 10) most recent
\* matches, newest first: 15 events leave matches 15..6.
C4_PrependThenTruncate ==
    /\ [][app = "sse" /\ nextId' = nextId + 1 =>
            recentMatches' = SubSeq(<<nextId>> \o recentMatches, 1,
                                    Min(MatchCap, Len(recentMatches) + 1))]_vars
    /\ [](cleanRun >= 0 =>
            /\ Len(recentMatches) = Min(cleanRun, MatchCap)
            /\ \A j \in 1..Len(recentMatches) : recentMatches[j] = nextId - j)

\* Fifteen events since the list was empty: ten entries, newest first, five dropped.
C4_Witness ==
    /\ cleanRun = 15
    /\ Len(recentMatches) = 10
    /\ recentMatches[1] = nextId - 1
    /\ recentMatches[10] = nextId - 10

----------------------------------------------------------------------------
(* Claims about TwitterMonitor's view state *)

\* C6 as stated: once a status payload has been received (stream event or
\* status fetch reply), the running state displayed is the is_running value of
\* the status payload received last, also after start/stop replies.
C6_RunningIsLastStatusPayload ==
    lastStatusPayload # <<>> => isRunning = lastStatusPayload[1]

\* C6 as amended: the running state displayed is the one written by the reply
\* received last: the payload's is_running for a status stream event or a
\* status fetch reply, true for a start reply and false for a stop reply; and
\* no step that changes recentMatches or logs changes it.
C6_RunningIsLastWrite ==
    /\ [](isRunning = CASE lastWriter \in {"stream", "fetch"} -> lastStatusPayload[1]
                        [] lastWriter = "start" -> TRUE
                        [] lastWriter = "stop" -> FALSE
                        [] OTHER -> FALSE)
    /\ [][isRunning' # isRunning => recentMatches' = recentMatches /\ logs' = logs]_vars

\* A start reply arrived after a status payload that said "not running".
C6_Witness ==
    /\ lastWriter = "start"
    /\ lastStatusPayload = <<FALSE>>
    /\ isRunning = TRUE

\* C8: an action that failed has changed no slice of status, isRunning, config,
\* recentMatches or logs since it started.
C8_FailedActionChangedNothing ==
    lastFailure # <<>> => lastFailure[1].changed = {}

----------------------------------------------------------------------------
(* Claims about the request helpers *)

NonOkSettled(hs) ==
    /\ call.phase = "settled"
    /\ call.helper \in hs
    /\ call.response # <<>>
    /\ ~Ok(call.response[1].status)

\* `part` occurs in `message` as a run of consecutive tokens.
Contains(message, part) ==
    \E i \in 0..(Len(message) - Len(part)) : SubSeq(message, i + 1, i + Len(part)) = part

\* C7: a one-shot call that has received no response 5000 ms after it was
\* issued is aborted and fails with a timeout error whose message names the
\* API base URL, so no call is still waiting for its response later than that.
C7_NoResponseMeansTimeout ==
    /\ call.phase = "pending" => call.elapsed <= TimeoutMs
    /\ call.aborted =>
          /\ call.outcome[1].kind = "error"
          /\ Includes(call.outcome[1].error.message, "Request timeout: API server at")
          /\ Includes(call.outcome[1].error.message, BaseUrl)

\* C9: for a non-2xx response, whatever its body, makeApiRequest and apiCall
\* throw an error whose message carries the status code of the response, and
\* return no value.
C9_NonOkCarriesStatus ==
    NonOkSettled({"makeApiRequest", "apiCall"}) =>
        /\ call.outcome[1].kind = "error"
        /\ Includes(call.outcome[1].error.message, call.response[1].status)

\* C10: for a non-2xx response whose body is JSON with a detail field, the
\* error thrown by the typed client carries the detail message.
C10_DetailCarried ==
    NonOkSettled({"libApi"}) /\ call.response[1].body.json /\ call.response[1].body.detail # <<>> =>
        /\ call.outcome[1].kind = "error"
        /\ Contains(call.outcome[1].error.message, call.response[1].body.detail)

----------------------------------------------------------------------------
(* Claims about the pages dashboard *)

ConnectionUnavailable(message) ==
    \/ Includes(message, "Cannot connect to API server at")
    \/ Includes(message, "Network error: Unable to connect to")

\* The error banners on screen that a failed status, matches or config call wrote.
ErrorBanners ==
    (IF apiError # <<>> THEN {"apiError"} ELSE {})
        \cup {c \in ComponentsOf(activeTab) : compError[c] # <<>>}

\* C11: with the base URL unreachable the failed calls report a
\* connection-unavailable error, and however many calls and polls have failed
\* the dashboard shows one connection-error banner, never one per failed call.
C11_SingleErrorBanner ==
    /\ apiError # <<>> => ConnectionUnavailable(apiError[1])
    /\ Cardinality(ErrorBanners) <= 1

\* The step in which handleStartMonitoring completes with success.
StartSucceeds ==
    /\ hpc["start"] = "status"
    /\ hpc'["start"] = "idle"
    /\ notification' = <<[type |-> "success", about |-> "start"]>>

----------------------------------------------------------------------------
(* Claims about retryWithBackoff *)

Max(a, b) == IF a > b THEN a ELSE b

\* The number of retries allowed: maxRetries rounded up, and 0 when negative.
RetriesAllowed == Max((retry.maxRetries2 + 1) \div 2, 0)

RetrySettled == retry.phase \in {"returned", "thrown"}

\* C12 as stated: never more than maxRetries + 1 invocations of fn.
C12_AtMostMaxRetriesPlusOne == 2 * retry.invocations <= retry.maxRetries2 + 2

\* C12: retryWithBackoff returns the result of the first invocation that
\* succeeds (every earlier one failed, none follows); when every invocation
\* fails it rethrows the error of the last one after exactly
\* max(ceil(maxRetries), 0) + 1 invocations, and never makes more; and for
\* every finite maxRetries the call settles once fn settles.
C12_RetriesThenSettles ==
    /\ [](/\ retry.invocations <= RetriesAllowed + 1
          /\ retry.phase = "returned" =>
                /\ retry.outcome = <<[kind |-> "value", of |-> retry.invocations]>>
                /\ retry.failed = retry.invocations - 1
          /\ retry.phase = "thrown" =>
                /\ retry.outcome = <<[kind |-> "error", of |-> retry.invocations]>>
                /\ retry.failed = retry.invocations
                /\ retry.invocations = RetriesAllowed + 1)
    /\ [][RetrySettled => retry' = retry]_vars
    /\ <>RetrySettled

C12_Witness ==
    /\ retry.phase = "thrown"
    /\ retry.maxRetries2 = 4
    /\ retry.invocations = 3

----------------------------------------------------------------------------
(* Claims about the connection status of a channel *)

\* The code keeps no status per channel; it is read off the channel's
\* EventSources and reconnect timers: Error while a reconnect scheduled by one
\* of its sources is pending, else Streaming when one of its sources is open,
\* else Connecting when one is connecting, else Disconnected.
ConnStatus(c) ==
    IF \E t \in DOMAIN timers : sources[timers[t].source].channel = c THEN "Error"
    ELSE IF \E i \in DOMAIN sources : sources[i].channel = c /\ sources[i].readyState = OPEN
         THEN "Streaming"
    ELSE IF \E i \in DOMAIN sources : sources[i].channel = c /\ sources[i].readyState = CONNECTING
         THEN "Connecting"
    ELSE "Disconnected"

ListedTransitions ==
    {<<"Disconnected", "Connecting">>, <<"Connecting", "Streaming">>,
     <<"Connecting", "Error">>, <<"Streaming", "Error">>, <<"Error", "Connecting">>,
     <<"Connecting", "Disconnected">>, <<"Streaming", "Disconnected">>,
     <<"Error", "Disconnected">>}

\* C14: per channel the connection status changes only along Disconnected ->
\* Connecting -> Streaming, Connecting or Streaming -> Error, Error ->
\* Connecting and any state -> Disconnected, and Disconnected is entered only
\* by the unsubscribe (the unmount).
C14_OnlyListedTransitions ==
    [][\A k \in 1..3 :
          /\ ConnStatus(Channels[k])' # ConnStatus(Channels[k]) =>
                <<ConnStatus(Channels[k]), ConnStatus(Channels[k])'>> \in ListedTransitions
          /\ ConnStatus(Channels[k])' = "Disconnected" /\ ConnStatus(Channels[k]) # "Disconnected"
                => unmounted' /\ ~unmounted]_vars

----------------------------------------------------------------------------
(* Claims about the messages on the streams *)

\* C15: each message the server emits on a channel is applied once, and the
\* messages of a channel are applied in the order of emission: no message is
\* applied twice and none is applied after a later one, whatever errors and
\* reconnects happen.
C15_OnceAndInOrder ==
    \A k \in 1..3 : \A i, j \in DOMAIN applied[k] : i < j => applied[k][i] < applied[k][j]

----------------------------------------------------------------------------
(* Claims about the configuration *)

\* C16: every save sends the complete configuration record to /config: all
\* three sections with all their fields, never a part of it.
C16_SavesSendWholeRecord ==
    lastPut # <<>> =>
        /\ DOMAIN lastPut[1].body = Sections
        /\ \A sec \in Sections : DOMAIN lastPut[1].body[sec] = DOMAIN DefaultConfig[sec]

C20_StatusReplacedWholesale ==
    [][status' # status =>
          IF lastWriter' = "stream"
          THEN /\ status'[1].is_running = StreamStatus(lastStatusPayload'[1]).is_running
               /\ \A field \in DOMAIN status'[1] \ {"is_running"} :
                      status'[1][field] \in {None, StreamStatus(lastStatusPayload'[1]).uptime}
          ELSE status' = <<FetchedStatus(lastStatusPayload'[1])>>]_vars

----------------------------------------------------------------------------
(* Claims about the logs tab *)

\* marker occurs in str at some position.
Occurs(str, marker) ==
    \E i \in 0..(Len(str) - Len(marker)) :
        \A j \in 1..Len(marker) : str[i + j] = marker[j]

\* C19: a log line gets one style by substring match: the error style when
\* it contains "ERROR"; else the warning style when it contains "WARNING";
\* else the info style when it contains "INFO"; else the default style.  The
\* error, warning and info styles differ from each other.
C19_StyleBySubstring ==
    logStyle # None =>
        /\ Occurs(logLine, ERROR) => logStyle = "text-red-500"
        /\ ~Occurs(logLine, ERROR) /\ Occurs(logLine, WARNING) => logStyle = "text-yellow-500"
        /\ ~Occurs(logLine, ERROR) /\ ~Occurs(logLine, WARNING) /\ Occurs(logLine, INFO)
              => logStyle = "text-blue-500"
        /\ ~Occurs(logLine, ERROR) /\ ~Occurs(logLine, WARNING) /\ ~Occurs(logLine, INFO)
              => logStyle = "text-green-500"
        /\ Cardinality({"text-red-500", "text-yellow-500", "text-blue-500"}) = 3

C19_Witness ==
    /\ logStyle = "text-red-500"
    /\ Occurs(logLine, INFO)
    /\ Occurs(logLine, WARNING)
    /\ logLine = INFO \o WARNING \o ERROR

----------------------------------------------------------------------------
(* Claims about stream messages that are not JSON *)

\* C21: when a message received on a stream cannot be parsed as JSON, the
\* client logs the error, shows the lost-connection notice and schedules a
\* reconnect after the fixed delay, as it does for a connection drop.
C21_ParseFailureReconnects ==
    [][parseErrors' = parseErrors + 1 =>
          /\ sseError' # None
          /\ Len(timers') = Len(timers) + 1
          /\ timers'[Len(timers')].delay = ReconnectDelayMs]_vars

----------------------------------------------------------------------------
(* Claims about the Start/Stop control *)

\* C22 as stated: start calls are not deduplicated: while a start (or stop)
\* call is in flight the control still accepts an activation, so that a
\* second activation puts a second call in flight.
C22_ControlOpenDuringCall ==
    toggleCalls # <<>> => ToggleEnabled(isTogglingMonitor)

\* C22: the control is disabled by isTogglingMonitor from the activation to
\* the settling of the call, so at most one start or stop call of the
\* control is in flight at any time.
C22_OneToggleCallInFlight ==
    /\ Len(toggleCalls) <= 1
    /\ toggleCalls # <<>> => ~ToggleEnabled(isTogglingMonitor)

C22_Witness ==
    /\ Len(toggleSent) >= 2
    /\ toggleSent[Len(toggleSent)] = "start"
    /\ toggleSent[Len(toggleSent) - 1] = "start"
    /\ toggleCalls = <<"start">>

----------------------------------------------------------------------------
(* Claims about Retry Connection and the control buttons of Home *)

\* C23: activating Retry Connection after a connection error clears the error
\* banner and issues a new status and matches fetch at once, without waiting
\* for the next tick of the 10-second poll: the step that clears a shown
\* banner leaves fetchData running, suspended at its fetchStatus call.
C23_RetryFetchesAtOnce ==
    [][apiError # <<>> /\ apiError' = <<>> => hpc'["poll"] = "status"]_vars

\* A start, stop or check-now call issued by a control button is in flight.
ControlCallInFlight == \E a \in {"start", "stop", "check"} : hpc[a] # "idle"

\* C24: while a start, stop or check-now call issued by a control button is
\* in flight, all three control buttons are disabled, whatever the poll does
\* to the loading flag meanwhile.
C24_ControlsDisabledDuringCall ==
    activeTab = "dashboard" /\ ControlCallInFlight =>
        StartDisabled /\ StopDisabled /\ CheckDisabled

\* C26: in every reachable state at most one of the Start Monitoring and
\* Stop Monitoring buttons (shown on the dashboard tab) is enabled.
C26_StartStopExclusive ==
    activeTab = "dashboard" => StartDisabled \/ StopDisabled

----------------------------------------------------------------------------
(* Claims about MatchesList *)

\* C25: once all in-flight match fetches have settled, the displayed matches
\* are the response to the fetch issued last (for the limit selected last, or
\* the last refresh), whatever order the responses arrived in.
C25_LatestFetchDisplayed ==
    mlCalls = {} /\ mlLatest.outcome = "ok" =>
        mlMatches = GetMatches(mlLatest.limit, mlTotal)

----------------------------------------------------------------------------
(* Claims about UsernameManager's list *)

\* The name an add is about: the text without the white space around it and
\* without one leading @.
AddedName(text) ==
    LET t == Trim(text) IN IF t # <<>> /\ t[1] = "@" THEN SubSeq(t, 2, Len(t)) ELSE t

\* C27: from a fetched list without duplicates or empty entries, after any
\* adds and removes the list has no duplicate and no empty entry; an add whose
\* name is empty after trimming and stripping one leading @, or is in the list
\* already, leaves the list unchanged and sets an error (any other add appends
\* the name); a remove deletes exactly the entry at its index.
C27_ListStaysClean ==
    /\ [](/\ \A i, j \in DOMAIN usernames : usernames[i] = usernames[j] => i = j
          /\ \A i \in DOMAIN usernames : usernames[i] # <<>>)
    /\ [][/\ umLastOp'.op = "add" =>
               IF \/ AddedName(newUsername) = <<>>
                  \/ \E i \in DOMAIN usernames : usernames[i] = AddedName(newUsername)
               THEN usernames' = usernames /\ umError' # None
               ELSE usernames' = usernames \o <<AddedName(newUsername)>>
          /\ umLastOp'.op = "remove" =>
               /\ Len(usernames') = Len(usernames) - 1
               /\ \A i \in DOMAIN usernames' :
                      usernames'[i] = usernames[IF i < umLastOp'.index THEN i ELSE i + 1]]_vars

C27_Witness ==
    /\ umLastOp.op = "add"
    /\ umError = "This username is already in the list"
    /\ newUsername = <<" ", "a", " ">>
    /\ Len(usernames) = 2

====
